---- MODULE Spec2Model ----
(***************************************************************************)
(* Model of describe_csv.py: the per-column description pipeline with its  *)
(* pickle file cache (ollama_cache/<md5>.pkl), the markdown field          *)
(* extraction and the table-level orchestration.                           *)
(*                                                                         *)
(* A text is a sequence of tokens.  The tokens SP and NL are the           *)
(* whitespace characters, DASH is "-", the five label tokens stand for the *)
(* bold labels with their colon, every other token is a run of ordinary    *)
(* characters.                                                             *)
(***************************************************************************)
EXTENDS Integers, Sequences, FiniteSets, TLC

\* ------------------------------------------------------------------ bounds
MaxCalls == 3
MaxLen == 4

\* ------------------------------------------------------------------ tokens
SP == "SP"
NL == "NL"
DASH == "-"
WS == {SP, NL}

L_BP == "**Business Purpose**:"
L_DQ == "**Data Quality Rules**:"
L_EU == "**Example Usage**:"
L_KI == "**Known Issues/Limitations**:"
L_IS == "**Issues**:"

\* a label as the service may write it in another case
L_IS_UPPER == "**ISSUES**:"

NA == <<"N/A">>

NaN == "NaN"

SampleLimit == 5

\* ------------------------------------------------------- sequence helpers
Min(S) == CHOOSE x \in S : \A y \in S : x <= y

Range(s) == {s[i] : i \in 1..Len(s)}

\* str.strip(): leading and trailing whitespace removed
Strip(t) ==
  LET keep == {i \in 1..Len(t) : t[i] \notin WS}
  IN  IF keep = {} THEN <<>>
      ELSE SubSeq(t, Min(keep), CHOOSE j \in keep : \A k \in keep : k <= j)

\* Series.dropna()
RECURSIVE dropna(_)
dropna(vs) ==
  IF vs = <<>> THEN <<>>
  ELSE IF Head(vs) = NaN THEN dropna(Tail(vs))
       ELSE <<Head(vs)>> \o dropna(Tail(vs))

\* Series.unique(): first occurrences, in order
RECURSIVE unique(_)
unique(vs) ==
  IF vs = <<>> THEN <<>>
  ELSE LET r == unique(SubSeq(vs, 1, Len(vs) - 1))
           x == vs[Len(vs)]
       IN  IF x \in Range(r) THEN r ELSE Append(r, x)

\* list[:n]
Take(vs, n) == SubSeq(vs, 1, IF Len(vs) < n THEN Len(vs) ELSE n)

\* ---------------------------------------------------- field extraction
\* re.IGNORECASE: a label in another case matches as the label itself
Fold(tok) == IF tok = L_IS_UPPER THEN L_IS ELSE tok

\* the lookahead (?=\n-|\n\n|$) at position k of t
Boundary(t, k) ==
  \/ k > Len(t)
  \/ k = Len(t) /\ t[k] = NL
  \/ k < Len(t) /\ t[k] = NL /\ t[k + 1] \in {DASH, NL}

\* SearchField with the pattern's capture made greedy and unbounded: (.*)
SearchFieldToEnd(labels, description) ==
  LET at == {i \in 1..Len(description) : Fold(description[i]) \in labels}
  IN  IF at = {} THEN NA
      ELSE Strip(SubSeq(description, Min(at) + 1, Len(description)))

\* SearchField leaving an unmatched field empty in place of the sentinel
SearchFieldNoSentinel(labels, description) ==
  LET at == {i \in 1..Len(description) : Fold(description[i]) \in labels}
  IN  IF at = {} THEN <<>>
      ELSE LET i == Min(at)
               s == Min({j \in (i + 1)..(Len(description) + 1) :
                           j > Len(description) \/ description[j] \notin WS})
               e == Min({k \in s..(Len(description) + 1) : Boundary(description, k)})
           IN  Strip(SubSeq(description, s, e - 1))

\* re.search(label ':' \s* (.*?) lookahead).group(1).strip(), or 'N/A'
SearchField(labels, description) ==
  LET at == {i \in 1..Len(description) : Fold(description[i]) \in labels}
  IN  IF at = {} THEN NA
      ELSE LET i == Min(at)
               s == Min({j \in (i + 1)..(Len(description) + 1) :
                           j > Len(description) \/ description[j] \notin WS})
               e == Min({k \in s..(Len(description) + 1) : Boundary(description, k)})
           IN  Strip(SubSeq(description, s, e - 1))

\* parse_markdown_description with the issues pattern lacking its second
\* alternative
ParseKnownIssuesOnly(description) ==
  [business_purpose   |-> SearchField({L_BP}, description),
   data_quality_rules |-> SearchField({L_DQ}, description),
   example_usage      |-> SearchField({L_EU}, description),
   issues             |-> SearchField({L_KI}, description)]

parse_markdown_description(description) ==
  [business_purpose   |-> SearchField({L_BP}, description),
   data_quality_rules |-> SearchField({L_DQ}, description),
   example_usage      |-> SearchField({L_EU}, description),
   issues             |-> SearchField({L_KI, L_IS}, description)]

\* ------------------------------------------------------------- inputs
\* what pd.read_csv yields for each path: the table's columns in file order,
\* each with its dtype label and its cell values (NaN marks a missing cell)
Sources ==
  { [path |-> "missing.csv", exists |-> FALSE, readable |-> FALSE,
     table_name |-> <<"missing">>, columns |-> <<>>],
    [path |-> "binary.csv", exists |-> TRUE, readable |-> FALSE,
     table_name |-> <<"binary">>, columns |-> <<>>],
    [path |-> "sample_sales_data.csv", exists |-> TRUE, readable |-> TRUE,
     table_name |-> <<"sample_sales_data">>,
     columns |-> << [column_name |-> <<"StoreID">>, dtype |-> "object",
                     values |-> <<"STORE-A", "STORE-B", "STORE-A">>],
                    [column_name |-> <<"TransactionDate">>, dtype |-> "object",
                     values |-> <<"2025-09-15", NaN>>] >>],
    [path |-> "flags.csv", exists |-> TRUE, readable |-> TRUE,
     table_name |-> <<"flags">>,
     columns |-> << [column_name |-> <<L_IS, SP, "flag">>, dtype |-> "int64",
                     values |-> <<"1", "0", "1", "2", "3", "4", "5">>] >>] }

Models == {"llama3", "mistral"}

\* response['message']['content'] as the service may send it
Full1 ==
  <<DASH, SP, L_BP, SP, "Identifies the store.", NL,
    DASH, SP, L_DQ, SP, "Must be unique.", NL,
    DASH, SP, L_EU, SP, "Group sales by store.", NL,
    DASH, SP, L_KI, SP, "Codes may be reused.">>
Full2 ==
  <<L_BP, SP, "Date of sale.", NL, NL,
    L_DQ, SP, "ISO format.", NL, NL,
    L_EU, SP, "Daily totals.", NL, NL,
    L_IS, SP, "May be missing.", NL>>
Blank == <<SP, NL>>
Contents == {Full1, Full2, Blank}

\* str(e) of what client.chat may raise
ChatErrors == {<<"timed out">>, <<"HTTP 500", NL, NL, "model not loaded">>}
\* str(e) of what open() or pickle.dump may raise
DiskError == <<"No space left on device">>

\* ---------------------------------------------------- column metadata
column_info_metadata(col) ==
  [column_name |-> col.column_name,
   data_type   |-> col.dtype,
   is_nullable |-> IF \E i \in 1..Len(col.values) : col.values[i] = NaN
                   THEN "YES" ELSE "NO"]

sample_values(col) == Take(unique(dropna(col.values)), SampleLimit)

\* ------------------------------------------------------------ the prompt
Prompt(table_name, column_info, samples) ==
  <<"As a data governance expert, provide a concise description for the following database column:",
    NL, "Table:", SP>> \o table_name \o
  <<NL, "Column:", SP>> \o column_info.column_name \o
  <<NL, "Data Type:", SP, column_info.data_type,
    NL, "Is Nullable:", SP, column_info.is_nullable,
    NL, "Here are a few sample values from the column:", SP>> \o samples \o
  <<NL, "Please provide the following information in markdown format:",
    NL, "Keep the total response under 200 words.">>

get_cache_key(prompt) == [hexdigest |-> prompt]

\* Fallback with the example line's label misspelt
FallbackMislabelled(table_name, column_info, e) ==
  <<DASH, SP, L_BP, SP, "Could not determine purpose for", SP>>
    \o column_info.column_name \o
  <<".", NL, DASH, SP, L_DQ, SP, "Must conform to data type", SP,
    column_info.data_type, ".", NL,
    DASH, SP, "**Example**:", SP, "Used for general analysis within the", SP>>
    \o table_name \o
  <<SP, "table.", NL, DASH, SP, L_KI, SP,
    "LLM description generation failed:", SP>> \o e

\* ------------------------------------------------------ the fallback text
Fallback(table_name, column_info, e) ==
  <<DASH, SP, L_BP, SP, "Could not determine purpose for", SP>>
    \o column_info.column_name \o
  <<".", NL, DASH, SP, L_DQ, SP, "Must conform to data type", SP,
    column_info.data_type, ".", NL,
    DASH, SP, L_EU, SP, "Used for general analysis within the", SP>>
    \o table_name \o
  <<SP, "table.", NL, DASH, SP, L_KI, SP,
    "LLM description generation failed:", SP>> \o e

\* ------------------------------------------------------- the cache files
\* A file of the cache directory: hdr is the length the pickle header
\* announces (-1: no header, the file is empty), body the bytes after it.
NoFile == [exists |-> FALSE, hdr |-> -1, body |-> <<>>]
EmptyFile == [exists |-> TRUE, hdr |-> -1, body |-> <<>>]

\* open(cache_file, 'wb'): created or truncated
OpenWb(f) == EmptyFile

\* pickle.dump(response, f): written from offset 0 over what the file holds
Dump(f, response) ==
  [exists |-> TRUE, hdr |-> Len(response),
   body |-> response \o SubSeq(f.body, Len(response) + 1, Len(f.body))]

\* pickle.load(f) raises on an empty or short file
LoadRaises(f) == f.hdr < 0 \/ Len(f.body) < f.hdr
Load(f) == SubSeq(f.body, 1, f.hdr)

PromptOf(s, i) ==
  Prompt(s.table_name, column_info_metadata(s.columns[i]),
         sample_values(s.columns[i]))

AllKeys ==
  UNION {{get_cache_key(PromptOf(s, i)) : i \in 1..Len(s.columns)} : s \in Sources}

\* ------------------------------------------------------------- the state
Procs == {1, 2}

VARIABLES
  files,            \* ollama_cache: cache key -> file
  pc,               \* where each invocation of generate_descriptions_from_csv is
  csv,              \* its csv_file_path, as the source found there
  model,            \* its model argument
  col,              \* the index of the column its loop is at
  all_column_info,  \* the records its loop has appended
  description,      \* the stripped response it is about to cache
  description_md,   \* the text its loop last passed to the field extraction
  events,           \* what it has done since it was called
  result,           \* what it returned: <<>> for {}, else <<the table's entry>>
  prev,             \* the call it made before this one, if any
  ncalls            \* calls made so far

vars == <<files, pc, csv, model, col, all_column_info, description,
          description_md, events,
          result, prev, ncalls>>

NoSource == CHOOSE s \in Sources : ~s.exists

Init ==
  /\ files = [k \in AllKeys |-> NoFile]
  /\ pc = [p \in Procs |-> "idle"]
  /\ csv = [p \in Procs |-> NoSource]
  /\ model = [p \in Procs |-> "llama3"]
  /\ col = [p \in Procs |-> 0]
  /\ all_column_info = [p \in Procs |-> <<>>]
  /\ description = [p \in Procs |-> <<>>]
  /\ description_md = [p \in Procs |-> <<>>]
  /\ events = [p \in Procs |-> <<>>]
  /\ result = [p \in Procs |-> <<>>]
  /\ prev = [p \in Procs |-> <<>>]
  /\ ncalls = 0

\* ---------------------------------------------------------- the locals
table_name(p) == csv[p].table_name
column(p) == csv[p].columns[col[p]]
column_info(p) == column_info_metadata(column(p))
cache_key(p) == get_cache_key(PromptOf(csv[p], col[p]))
cache_file(p) == files[cache_key(p)]

\* events: what was done, at which column, with which model argument, and
\* for a failure the str(e) of the exception
Event(p, op, e) == [op |-> op, col |-> col[p], model |-> model[p], cause |-> e]
Log(p, op) == events' = [events EXCEPT ![p] = Append(@, Event(p, op, <<>>))]
LogError(p, op, e) == events' = [events EXCEPT ![p] = Append(@, Event(p, op, e))]

\* steps 3 and 4 of the loop body, and the next iteration
AppendColumn(p, md) ==
  /\ all_column_info' = [all_column_info EXCEPT ![p] =
       Append(@, [column_name |-> column(p).column_name,
                  column_desc |-> <<parse_markdown_description(md)>>])]
  /\ col' = [col EXCEPT ![p] = @ + 1]
  /\ description' = [description EXCEPT ![p] = <<>>]
  /\ description_md' = [description_md EXCEPT ![p] = md]
  /\ pc' = [pc EXCEPT ![p] = "column"]

\* ReturnEmpty returning a mapping with an empty column list in place of {}
ReturnEmptyTable(p) ==
  /\ result' = [result EXCEPT ![p] = <<[table_name |-> <<>>, columns |-> <<>>]>>]
  /\ pc' = [pc EXCEPT ![p] = "returned"]

\* return {} from the not-found test or from the except clause of the loop
ReturnEmpty(p) ==
  /\ result' = [result EXCEPT ![p] = <<>>]
  /\ pc' = [pc EXCEPT ![p] = "returned"]

\* ------------------------------------------------------------ the calls
Enter(p, s, m) ==
  /\ pc[p] \in {"idle", "returned"}
  /\ ncalls < MaxCalls
  /\ ncalls' = ncalls + 1
  /\ prev' = [prev EXCEPT ![p] =
       IF pc[p] = "returned"
       THEN <<[path |-> csv[p].path, result |-> result[p], events |-> events[p]]>>
       ELSE @]
  /\ csv' = [csv EXCEPT ![p] = s]
  /\ model' = [model EXCEPT ![p] = m]
  /\ events' = [events EXCEPT ![p] = <<>>]
  /\ all_column_info' = [all_column_info EXCEPT ![p] = <<>>]
  /\ description' = [description EXCEPT ![p] = <<>>]
  /\ description_md' = [description_md EXCEPT ![p] = <<>>]

CallMissing(p, srcs) ==
  \E s \in srcs, m \in Models :
    /\ ~s.exists
    /\ Enter(p, s, m)
    /\ ReturnEmpty(p)
    /\ col' = [col EXCEPT ![p] = 0]
    /\ UNCHANGED files

CallUnreadable(p, srcs) ==
  \E s \in srcs, m \in Models :
    /\ s.exists /\ ~s.readable
    /\ Enter(p, s, m)
    /\ ReturnEmpty(p)
    /\ col' = [col EXCEPT ![p] = 0]
    /\ UNCHANGED files

CallTable(p, srcs) ==
  \E s \in srcs, m \in Models :
    /\ s.exists /\ s.readable
    /\ Enter(p, s, m)
    /\ result' = [result EXCEPT ![p] = <<>>]
    /\ pc' = [pc EXCEPT ![p] = "column"]
    /\ col' = [col EXCEPT ![p] = 1]
    /\ UNCHANGED files

ReturnTable(p) ==
  /\ pc[p] = "column"
  /\ col[p] > Len(csv[p].columns)
  /\ result' = [result EXCEPT ![p] =
       <<[table_name |-> table_name(p), columns |-> all_column_info[p]]>>]
  /\ pc' = [pc EXCEPT ![p] = "returned"]
  /\ UNCHANGED <<files, csv, model, col, all_column_info, description,
                 description_md, events, prev, ncalls>>

\* ------------------------------------------------------------ the lookup
Lookup(p) ==
  /\ pc[p] = "column"
  /\ col[p] <= Len(csv[p].columns)
  /\ Log(p, "lookup")
  /\ pc' = [pc EXCEPT ![p] = IF cache_file(p).exists THEN "load" ELSE "generate"]
  /\ UNCHANGED <<files, csv, model, col, all_column_info, description,
                 description_md, result, prev, ncalls>>

\* LoadError returning the records built before the exception
LoadErrorReturnsPartial(p) ==
  /\ pc[p] = "load"
  /\ LoadRaises(cache_file(p))
  /\ LogError(p, "load_error", <<"Ran out of input">>)
  /\ result' = [result EXCEPT ![p] =
       <<[table_name |-> table_name(p), columns |-> all_column_info[p]]>>]
  /\ pc' = [pc EXCEPT ![p] = "returned"]
  /\ UNCHANGED <<files, csv, model, col, all_column_info, description,
                 description_md, prev, ncalls>>

LoadError(p) ==
  /\ pc[p] = "load"
  /\ LoadRaises(cache_file(p))
  /\ LogError(p, "load_error", <<"Ran out of input">>)
  /\ ReturnEmpty(p)
  /\ UNCHANGED <<files, csv, model, col, all_column_info, description,
                 description_md, prev, ncalls>>

LoadHit(p) ==
  /\ pc[p] = "load"
  /\ ~LoadRaises(cache_file(p))
  /\ Load(cache_file(p)) # <<>>
  /\ Log(p, "hit")
  /\ AppendColumn(p, Load(cache_file(p)))
  /\ UNCHANGED <<files, csv, model, result, prev, ncalls>>

LoadFalsy(p) ==
  /\ pc[p] = "load"
  /\ ~LoadRaises(cache_file(p))
  /\ Load(cache_file(p)) = <<>>
  /\ Log(p, "load_falsy")
  /\ pc' = [pc EXCEPT ![p] = "generate"]
  /\ UNCHANGED <<files, csv, model, col, all_column_info, description,
                 description_md, result, prev, ncalls>>

\* -------------------------------------------------------- the generation
ChatOk(p) ==
  \E content \in Contents :
    /\ pc[p] = "generate"
    /\ Log(p, "generate_ok")
    /\ description' = [description EXCEPT ![p] = Strip(content)]
    /\ pc' = [pc EXCEPT ![p] = "save_open"]
    /\ UNCHANGED <<files, csv, model, col, all_column_info, description_md,
                   result, prev, ncalls>>

\* ChatFails with the fallback text stored in the cache like a response
ChatFailsCachesFallback(p) ==
  \E e \in ChatErrors :
    /\ pc[p] = "generate"
    /\ LogError(p, "generate_failed", e)
    /\ files' = [files EXCEPT ![cache_key(p)] =
         Dump(OpenWb(@), Fallback(table_name(p), column_info(p), e))]
    /\ AppendColumn(p, Fallback(table_name(p), column_info(p), e))
    /\ UNCHANGED <<csv, model, result, prev, ncalls>>

\* ChatFails trying the collaborator again in place of the fallback
ChatFailsRetries(p) ==
  \E e \in ChatErrors :
    /\ pc[p] = "generate"
    /\ LogError(p, "generate_failed", e)
    /\ UNCHANGED <<files, pc, csv, model, col, all_column_info, description,
                   description_md, result, prev, ncalls>>

ChatFails(p) ==
  \E e \in ChatErrors :
    /\ pc[p] = "generate"
    /\ LogError(p, "generate_failed", e)
    /\ AppendColumn(p, Fallback(table_name(p), column_info(p), e))
    /\ UNCHANGED <<files, csv, model, result, prev, ncalls>>

SaveOpen(p) ==
  /\ pc[p] = "save_open"
  /\ Log(p, "truncate")
  /\ files' = [files EXCEPT ![cache_key(p)] = OpenWb(@)]
  /\ pc' = [pc EXCEPT ![p] = "save_dump"]
  /\ UNCHANGED <<csv, model, col, all_column_info, description,
                 description_md, result, prev, ncalls>>

SaveOpenFails(p) ==
  /\ pc[p] = "save_open"
  /\ LogError(p, "store_failed", DiskError)
  /\ AppendColumn(p, Fallback(table_name(p), column_info(p), DiskError))
  /\ UNCHANGED <<files, csv, model, result, prev, ncalls>>

SaveDump(p) ==
  /\ pc[p] = "save_dump"
  /\ Log(p, "store")
  /\ files' = [files EXCEPT ![cache_key(p)] = Dump(@, description[p])]
  /\ AppendColumn(p, description[p])
  /\ UNCHANGED <<csv, model, result, prev, ncalls>>

SaveDumpFails(p) ==
  /\ pc[p] = "save_dump"
  /\ LogError(p, "store_failed", DiskError)
  /\ AppendColumn(p, Fallback(table_name(p), column_info(p), DiskError))
  /\ UNCHANGED <<files, csv, model, result, prev, ncalls>>

\* ------------------------------------------------------ specifications
Step(p, srcs) ==
  \/ CallMissing(p, srcs)
  \/ CallUnreadable(p, srcs)
  \/ CallTable(p, srcs)
  \/ ReturnTable(p)
  \/ Lookup(p)
  \/ LoadError(p)
  \/ LoadHit(p)
  \/ LoadFalsy(p)
  \/ ChatOk(p)
  \/ ChatFails(p)
  \/ SaveOpen(p)
  \/ SaveOpenFails(p)
  \/ SaveDump(p)
  \/ SaveDumpFails(p)

\* one process calling generate_descriptions_from_csv again and again
Next == Step(1, Sources)
Spec == Init /\ [][Next]_vars

\* two processes sharing the cache directory, on the one-column table
ConcSources == {s \in Sources : Len(s.columns) < 2}
NextConc == \E p \in Procs : Step(p, ConcSources)
SpecConc == Init /\ [][NextConc]_vars

\* the field extraction alone, on any short text
Alphabet == {L_BP, L_DQ, L_EU, L_KI, L_IS, L_IS_UPPER, SP, NL, DASH, "text"}
RawTexts == UNION {[1..n -> Alphabet] : n \in 0..MaxLen}

InitParse ==
  /\ files = [k \in AllKeys |-> NoFile]
  /\ pc = [p \in Procs |-> "idle"]
  /\ csv = [p \in Procs |-> NoSource]
  /\ model = [p \in Procs |-> "llama3"]
  /\ col = [p \in Procs |-> 0]
  /\ all_column_info = [p \in Procs |-> <<>>]
  /\ description = [p \in Procs |-> <<>>]
  /\ \E t \in RawTexts : description_md = [p \in Procs |-> t]
  /\ events = [p \in Procs |-> <<>>]
  /\ result = [p \in Procs |-> <<>>]
  /\ prev = [p \in Procs |-> <<>>]
  /\ ncalls = 0

\* parsed_desc = _parse_markdown_description(description_md), kept as the
\* one description of a record
Extract ==
  /\ pc[1] = "idle"
  /\ all_column_info' = [all_column_info EXCEPT ![1] =
       <<[column_name |-> <<>>,
          column_desc |-> <<parse_markdown_description(description_md[1])>>]>>]
  /\ pc' = [pc EXCEPT ![1] = "parsed"]
  /\ UNCHANGED <<files, csv, model, col, description, description_md, events,
                 result, prev, ncalls>>

NextParse == Extract
SpecParse == InitParse /\ [][NextParse]_vars

TypeOK ==
  /\ pc \in [Procs -> {"idle", "column", "load", "generate", "save_open",
                       "save_dump", "returned"}]
  /\ ncalls \in 0..MaxCalls
  /\ \A k \in AllKeys : files[k].exists \in BOOLEAN

\* ============================================================== claims
Last(seq) == seq[Len(seq)]

HasEvent(evs, op, i) == \E n \in 1..Len(evs) : evs[n].op = op /\ evs[n].col = i

Generated(evs) ==
  \E n \in 1..Len(evs) : evs[n].op \in {"generate_ok", "generate_failed"}

Readable(p) == csv[p].exists /\ csv[p].readable

\* the call each process made before its current one generated and stored
\* a response for every column of the table
PrevStoredAll(p) ==
  /\ prev[p] # <<>>
  /\ prev[p][1].path = csv[p].path
  /\ \A i \in 1..Len(csv[p].columns) : HasEvent(prev[p][1].events, "store", i)

\* C1: when the pipeline is called twice in sequence on the same columns and
\* the first call generated and stored every column, the second call makes no
\* call to the generation collaborator and returns what the first returned,
\* whatever text the collaborator returned (empty or whitespace-only too).
C1_SecondCallServedFromCache ==
  (pc[1] = "returned" /\ Readable(1) /\ PrevStoredAll(1))
    => /\ ~Generated(events[1])
       /\ result[1] = prev[1][1].result

\* C2: a call that found a corrupted cache entry at lookup regenerates that
\* column through the collaborator and returns a non-empty result holding it.
C2_CorruptEntryIsMiss ==
  \A p \in Procs :
    \A i \in 1..Len(csv[p].columns) :
      (pc[p] = "returned" /\ HasEvent(events[p], "load_error", i))
        => /\ Generated(events[p])
           /\ result[p] # <<>>
           /\ Len(result[p][1].columns) >= i

\* C3: when the collaborator succeeded and storing its response fails, the
\* text extracted for the column is the freshly generated description.
C3_StoreFailureKeepsFreshDescription ==
  [][\A p \in Procs :
       (pc[p] \in {"save_open", "save_dump"} /\ pc'[p] = "column")
         => description_md'[p] = description[p]]_vars

\* C4: a call in which the collaborator failed for every column returns a
\* non-empty mapping with one record per column, each holding exactly one
\* description whose four fields are all populated from the fallback text.
C4Fields(d) ==
  {d.business_purpose, d.data_quality_rules, d.example_usage, d.issues}

CauseAt(evs, op, i) ==
  (CHOOSE ev \in Range(evs) : ev.op = op /\ ev.col = i).cause

C4_AllGenerationsFailStillComplete ==
  \A p \in Procs :
    (/\ pc[p] = "returned"
     /\ Readable(p)
     /\ \A i \in 1..Len(csv[p].columns) : HasEvent(events[p], "generate_failed", i))
    => /\ result[p] # <<>>
       /\ Len(result[p][1].columns) = Len(csv[p].columns)
       /\ \A i \in 1..Len(csv[p].columns) :
            LET rec == result[p][1].columns[i]
                fb  == Fallback(csv[p].table_name,
                                column_info_metadata(csv[p].columns[i]),
                                CauseAt(events[p], "generate_failed", i))
            IN  /\ Len(rec.column_desc) = 1
                /\ \A f \in C4Fields(rec.column_desc[1]) :
                     f # NA /\ f # <<>> /\ Range(f) \subseteq Range(fb)

C4_Witness ==
  /\ pc[1] = "returned"
  /\ Len(csv[1].columns) = 2
  /\ \A i \in 1..2 : HasEvent(events[1], "generate_failed", i)
  /\ result[1] # <<>>

\* C5: right after a generation failure the fallback text states the
\* column's declared type, and the issues field extracted for the column is
\* "LLM description generation failed:" followed by the failure cause up to
\* its first blank line or line break before a dash, provided the column
\* name and the table name hold no issues label.
LastIsGenerationFailure(p) ==
  /\ events[p] # <<>>
  /\ Last(events[p]).op = "generate_failed"

FailedColumn(p) == csv[p].columns[Last(events[p]).col]

FirstBlock(e) == SubSeq(e, 1, Min({k \in 1..(Len(e) + 1) : Boundary(e, k)}) - 1)

NoIssuesLabel(t) == \A i \in 1..Len(t) : t[i] \notin {L_KI, L_IS}

C5_FallbackStatesTypeAndCause ==
  \A p \in Procs :
    LastIsGenerationFailure(p)
      => /\ FailedColumn(p).dtype \in Range(description_md[p])
         /\ (NoIssuesLabel(FailedColumn(p).column_name \o csv[p].table_name)
               => all_column_info[p][Last(events[p]).col].column_desc[1].issues
                    = Strip(<<"LLM description generation failed:", SP>>
                              \o FirstBlock(Last(events[p]).cause)))

C5_Witness ==
  /\ LastIsGenerationFailure(1)
  /\ Last(events[1]).col = 2
  /\ Len(Last(events[1]).cause) > 1
  /\ pc[1] = "returned"

\* C5 as first stated: the fallback text states the declared type and the
\* nullability, and the issues field holds the failure cause.
C5_FallbackStatesTypeNullabilityAndCause ==
  \A p \in Procs :
    LastIsGenerationFailure(p)
      => /\ FailedColumn(p).dtype \in Range(description_md[p])
         /\ column_info_metadata(FailedColumn(p)).is_nullable
              \in Range(description_md[p])
         /\ Range(Last(events[p]).cause) \subseteq
              Range(all_column_info[p][Last(events[p]).col].column_desc[1].issues)

\* C6: a call on a readable source never returns the empty mapping, whatever
\* failed while a column was processed.
C6_ReadableSourceNeverEmpty ==
  \A p \in Procs : (pc[p] = "returned" /\ Readable(p)) => result[p] # <<>>

\* C7: while another invocation is between opening and writing the entry of
\* key K, an invocation that looks K up does not fail: it does not end with
\* a load error and the empty mapping.
NoStoreFailed(p) ==
  /\ \A n \in 1..Len(events[p]) : events[p][n].op # "store_failed"
  /\ prev[p] # <<>> =>
       \A n \in 1..Len(prev[p][1].events) : prev[p][1].events[n].op # "store_failed"

C7_LookupDuringStoreNeverFails ==
  \A p \in Procs : \A q \in Procs \ {p} :
    (/\ pc[q] = "save_dump"
     /\ Readable(p)
     /\ csv[p].path = csv[q].path
     /\ NoStoreFailed(p) /\ NoStoreFailed(q))
    => ~(/\ pc[p] = "returned"
         /\ events[p] # <<>>
         /\ Last(events[p]).op = "load_error"
         /\ Last(events[p]).col = col[q])

\* C8: once two invocations have both stored a response under key K, the
\* entry of K loads to one complete response and is not written again, so
\* that every later lookup of K returns it.
StoredBy(p, path) ==
  \/ csv[p].path = path /\ HasEvent(events[p], "store", 1)
  \/ prev[p] # <<>> /\ prev[p][1].path = path
       /\ HasEvent(prev[p][1].events, "store", 1)

C8_LastWriteWinsAndStays ==
  [][\A s \in ConcSources :
       (s.readable /\ \A p \in Procs : StoredBy(p, s.path))
         => LET k == get_cache_key(PromptOf(s, 1))
            IN  /\ ~LoadRaises(files[k])
                /\ files'[k] = files[k]]_vars

\* C9: a call on a readable source returns the table name mapped to one
\* record per source column, the i-th record named after the i-th column.
C9_OneRecordPerColumnInOrder ==
  \A p \in Procs :
    (pc[p] = "returned" /\ Readable(p))
      => /\ result[p] # <<>>
         /\ result[p][1].table_name = csv[p].table_name
         /\ Len(result[p][1].columns) = Len(csv[p].columns)
         /\ \A i \in 1..Len(csv[p].columns) :
              result[p][1].columns[i].column_name = csv[p].columns[i].column_name

\* C10: a call on a source that is missing or cannot be read returns the
\* empty mapping, having made no generation call and no cache access.
C10_UnavailableSourceReturnsEmpty ==
  \A p \in Procs :
    (pc[p] # "idle" /\ ~Readable(p))
      => /\ pc[p] = "returned"
         /\ result[p] = <<>>
         /\ events[p] = <<>>

C10_Witness ==
  /\ pc[1] = "returned"
  /\ csv[1].exists /\ ~csv[1].readable
  /\ prev[1] # <<>>
  /\ \E k \in AllKeys : files[k].exists

\* C11: the field extraction of any text yields exactly the four keys, each
\* a text, and every field none of whose labels occurs in the raw text is
\* the sentinel "N/A".
Parsed == all_column_info[1][1].column_desc[1]

LabelOccurs(labels, t) == \E i \in 1..Len(t) : Fold(t[i]) \in labels

C11_ExtractionComplete ==
  pc[1] = "parsed"
    => /\ DOMAIN Parsed =
            {"business_purpose", "data_quality_rules", "example_usage", "issues"}
       /\ \A k \in DOMAIN Parsed :
            /\ Parsed[k] \in Seq(Alphabet \cup {"N/A"})
            /\ Len(Parsed[k]) <= Len(description_md[1]) + 1
       /\ ~LabelOccurs({L_BP}, description_md[1]) => Parsed.business_purpose = NA
       /\ ~LabelOccurs({L_DQ}, description_md[1]) => Parsed.data_quality_rules = NA
       /\ ~LabelOccurs({L_EU}, description_md[1]) => Parsed.example_usage = NA
       /\ ~LabelOccurs({L_KI, L_IS}, description_md[1]) => Parsed.issues = NA

\* a text with two of the four sections and both spellings of the issues label
C11_Witness ==
  /\ pc[1] = "parsed"
  /\ description_md[1] = <<L_KI, "text", NL, L_IS>>
  /\ Parsed.business_purpose = NA
  /\ Parsed.issues = <<"text", NL, L_IS>>

\* C12: in one sequential process, once a generated response has been stored
\* under a key, no later step writes the file of that key again.
C12_KeyWrittenAtMostOnce ==
  [][\A k \in AllKeys :
       (files[k].exists /\ ~LoadRaises(files[k])) => files'[k] = files[k]]_vars

\* C14: in every call the events of a column come in the order lookup, then
\* generation only after a miss, then a store only after a successful
\* generation; no cache file ever holds a fallback text; and the call after
\* one whose generation failed for a column misses on that column again and
\* calls the collaborator again.
EventsInOrder(evs) ==
  \A n \in 1..Len(evs) :
    LET ev == evs[n]
        after(ops) == n > 1 /\ evs[n - 1].col = ev.col /\ evs[n - 1].op \in ops
    IN  /\ ev.op = "lookup" => (n = 1 \/ evs[n - 1].col < ev.col)
        /\ ev.op \in {"hit", "load_falsy", "load_error"} => after({"lookup"})
        /\ ev.op \in {"generate_ok", "generate_failed"}
             => after({"lookup", "load_falsy"})
        /\ ev.op = "truncate" => after({"generate_ok"})
        /\ ev.op = "store" => after({"truncate"})
        /\ ev.op = "store_failed" => after({"generate_ok", "truncate"})

Responses == {Strip(c) : c \in Contents}

C14_LookupGenerateStoreOrder ==
  /\ EventsInOrder(events[1])
  /\ \A k \in AllKeys :
       (files[k].exists /\ ~LoadRaises(files[k])) => Load(files[k]) \in Responses
  /\ \A i \in 1..Len(csv[1].columns) :
       (/\ prev[1] # <<>>
        /\ prev[1][1].path = csv[1].path
        /\ HasEvent(prev[1][1].events, "generate_failed", i)
        /\ HasEvent(events[1], "lookup", i))
       => /\ ~HasEvent(events[1], "hit", i)
          /\ ~HasEvent(events[1], "load_error", i)
          /\ col[1] > i => \/ HasEvent(events[1], "generate_ok", i)
                           \/ HasEvent(events[1], "generate_failed", i)

C14_Witness ==
  /\ prev[1] # <<>>
  /\ prev[1][1].path = csv[1].path
  /\ HasEvent(prev[1][1].events, "generate_failed", 1)
  /\ HasEvent(events[1], "store", 1)
  /\ pc[1] = "returned"

\* C15: a text whose one issues section is labelled "Known Issues/Limitations"
\* and the same text with that label spelt "Issues" (and the converse)
\* extract to the same issues value, which is not the sentinel.
OtherSpelling(tok) ==
  IF tok = L_KI THEN L_IS ELSE IF Fold(tok) = L_IS THEN L_KI ELSE tok

Respelt(t) == [i \in 1..Len(t) |-> OtherSpelling(t[i])]

OneIssuesLabel(t) ==
  Cardinality({i \in 1..Len(t) : Fold(t[i]) \in {L_KI, L_IS}}) = 1

C15_IssuesSpellingsAgree ==
  (pc[1] = "parsed" /\ OneIssuesLabel(description_md[1]))
    => /\ Parsed.issues # NA
       /\ Parsed.issues =
            parse_markdown_description(Respelt(description_md[1])).issues

C15_Witness ==
  /\ pc[1] = "parsed"
  /\ description_md[1] = <<DASH, L_IS, SP, "text">>
  /\ Parsed.issues = <<"text">>

\* C16: a returned result is the empty mapping or one table entry with as
\* many records as the source has columns; a call that met an error at
\* column k returns the empty mapping although it had built k - 1 records,
\* and what it stored for the columns before k is still in the cache.
C16_AllOrNothing ==
  \A p \in Procs :
    pc[p] = "returned"
      => /\ \/ result[p] = <<>>
            \/ /\ Len(result[p]) = 1
               /\ Len(result[p][1].columns) = Len(csv[p].columns)
         /\ \A k \in 1..Len(csv[p].columns) :
              HasEvent(events[p], "load_error", k)
                => /\ result[p] = <<>>
                   /\ Len(all_column_info[p]) = k - 1
                   /\ \A j \in 1..(k - 1) :
                        HasEvent(events[p], "store", j)
                          => LET f == files[get_cache_key(PromptOf(csv[p], j))]
                             IN  /\ ~LoadRaises(f)
                                 /\ parse_markdown_description(Load(f))
                                      = all_column_info[p][j].column_desc[1]

C16_Witness ==
  /\ pc[1] = "returned"
  /\ HasEvent(events[1], "store", 1)
  /\ HasEvent(events[1], "load_error", 2)
  /\ result[1] = <<>>
  /\ Len(all_column_info[1]) = 1

\* C17: in one call the collaborator is called at most once for each column,
\* so at most as many times as the table has columns, each column is looked
\* up once, and every step of a call that has started brings its return
\* nearer.
GenerationsAt(evs, i) ==
  {n \in 1..Len(evs) :
     evs[n].col = i /\ evs[n].op \in {"generate_ok", "generate_failed"}}

OncePerColumn ==
  /\ \A i \in 1..Len(csv[1].columns) :
       /\ Cardinality(GenerationsAt(events[1], i)) <= 1
       /\ Cardinality({n \in 1..Len(events[1]) :
            events[1][n].col = i /\ events[1][n].op = "lookup"}) <= 1
  /\ Cardinality({n \in 1..Len(events[1]) :
       events[1][n].op \in {"generate_ok", "generate_failed"}})
       <= Len(csv[1].columns)
  /\ col[1] <= Len(csv[1].columns) + 1

\* the steps one call can still take: the columns not yet appended, each
\* worth one more than the longest path through a column, and the steps
\* left in the column being processed
StepsLeft ==
  LET here == CASE pc[1] = "column"    -> 5
                [] pc[1] = "load"      -> 4
                [] pc[1] = "generate"  -> 3
                [] pc[1] = "save_open" -> 2
                [] pc[1] = "save_dump" -> 1
                [] OTHER               -> 0
  IN  IF pc[1] \in {"idle", "returned"}
      THEN 0
      ELSE (Len(csv[1].columns) + 1 - col[1]) * 6 + here

C17_OncePerColumnAndReturns ==
  [][/\ OncePerColumn'
     /\ pc[1] \notin {"idle", "returned"} => StepsLeft' < StepsLeft]_vars

C17_Witness ==
  /\ pc[1] = "returned"
  /\ Len(csv[1].columns) = 2
  /\ \A i \in 1..2 : Cardinality(GenerationsAt(events[1], i)) = 1
  /\ HasEvent(events[1], "generate_failed", 1)

\* C18: once a call made with one model has stored the response of a column,
\* the next call on the same table made with another model takes that column
\* from the cache: it hits at the lookup, makes no call to the collaborator
\* for the column and describes it by the stored text.
StoredWithOtherModel(p, i) ==
  /\ prev[p] # <<>>
  /\ prev[p][1].path = csv[p].path
  /\ \E n \in 1..Len(prev[p][1].events) :
       /\ prev[p][1].events[n].op = "store"
       /\ prev[p][1].events[n].col = i
       /\ prev[p][1].events[n].model # model[p]

C18_OtherModelServedFromCache ==
  \A i \in 1..Len(csv[1].columns) :
    (Readable(1) /\ StoredWithOtherModel(1, i) /\ Len(all_column_info[1]) >= i)
      => /\ HasEvent(events[1], "hit", i)
         /\ GenerationsAt(events[1], i) = {}
         /\ all_column_info[1][i].column_desc[1] =
              parse_markdown_description(
                Load(files[get_cache_key(PromptOf(csv[1], i))]))
====
